---- MODULE Spec2Model ----
(***************************************************************************)
(* Energy estimation engine: the Energy Scorer and function analysis of   *)
(* predict_energy.py, bulk collection of collect_data.py and the training *)
(* pipeline of train_model.py.                                             *)
(*                                                                         *)
(* Numbers are fixed point.  cpu_usage, memory_usage and exec_time are in  *)
(* hundredths of their unit; an energy cost is in thousandths, so that     *)
(*   cpu*0.5 + memory*0.3 + exec_time*100*0.2                              *)
(* is the integer cpu*5 + memory*3 + exec_time*200.                        *)
(***************************************************************************)
EXTENDS Integers, Sequences, FiniteSets, TLC

VARIABLES
    artifact,          \* model artifact files: location -> content
    folder,            \* the .py files of the scripts folder, as os.listdir lists them
    funcFile,          \* data/function_metrics.csv
    scriptFile,        \* data/code_metrics.csv
    trained,           \* the in-memory model the last save_model call persisted
    prog,              \* the program the current process runs, or "idle"
    runs,              \* processes started so far
    exitCode,          \* exit status of the last process that ended (-1: none yet)
    \* ---- CompleteEnergyAnalyzer (predict_energy.py)
    apc,               \* "new" | "ready" | "returned" | "crashed" | "hung"
    model_loaded,
    model,
    model_path,
    probed,            \* locations the constructor's loop examined, in order
    explicit,          \* the model_path argument of the constructor
    lastScore,         \* the last call, when it was predict_energy by a caller
    alast,             \* the last call, when it was analyze_function
    ascript,           \* the last call, when it was analyze_script
    \* ---- EnergyDataCollector (collect_data.py)
    cpc,               \* position inside collect_all_data
    scripts,           \* script_files, as os.listdir returned them
    idx,               \* index of the script of the current loop iteration
    functions,         \* names extract_functions returned for that script
    fidx,              \* index of the next name of functions to profile
    script_results,
    function_results,
    baseline,          \* system load during this collection run: the "before" readings
    plast,             \* the last profile_function call
    slast,             \* the last collect_script_metrics call
    inproc,            \* scripts whose top-level code was exec'd in-process
    profiler_on,       \* a cProfile profiler is enabled in the collector process
    \* ---- EnergyModelTrainer (train_model.py)
    tpc,               \* position inside run_full_pipeline
    model_type,
    data,              \* self.data: rows of the loaded data file
    split,             \* [train, test] once train_test_split returned
    tmodel,            \* self.model
    tret,              \* what run_full_pipeline did: "none" | "True" | "False" | "raised"
    entered,           \* pipeline steps entered, in order
    saved,             \* save_model calls of this run
    artifactAtStart    \* content of the default artifact when the run began

fsVars == <<artifact, folder, funcFile, scriptFile, trained>>
procVars == <<prog, runs, exitCode>>
aVars == <<apc, model_loaded, model, model_path, probed, explicit, lastScore, alast,
           ascript>>
cVars == <<cpc, scripts, idx, functions, fidx, script_results, function_results,
           baseline, plast, slast, inproc, profiler_on>>
tVars == <<tpc, model_type, data, split, tmodel, tret, entered, saved, artifactAtStart>>
vars == <<fsVars, procVars, aVars, cVars, tVars>>

----------------------------------------------------------------------------
(* Bounds of the model *)

MaxScripts == 2      \* scripts in the scanned folder
MaxBaseline == 1     \* "before" readings range over 0..MaxBaseline (x 100)
MaxRuns == 2         \* processes run one after the other
MaxRows == 3         \* rows of a data file left by earlier use

----------------------------------------------------------------------------
(* Sequences helpers *)

RECURSIVE SumSeq(_)
SumSeq(s) == IF s = <<>> THEN 0 ELSE Head(s) + SumSeq(Tail(s))

Max(a, b) == IF a >= b THEN a ELSE b

Range(s) == {s[i] : i \in 1..Len(s)}

----------------------------------------------------------------------------
(* Scripts: what the programs observe of a source file.                    *)
(*   child : outcome of `python script` as a child process                  *)
(*   parses: ast.parse succeeds                                             *)
(*   load  : outcome of exec(code, namespace) in the measuring process      *)
(*   funcs : the FunctionDef nodes in the order of the source text; depth  *)
(*           = how deep the node is in the syntax tree (1: a statement of   *)
(*           the module); bound = the name is in the namespace after exec;  *)
(*           call = outcome of name()                                       *)

Fn(name, bound, call, loops, recursion, lines, cpu, mem, elapsed) ==
    [name |-> name, bound |-> bound, call |-> call, loops |-> loops,
     recursion |-> recursion, lines |-> lines,
     cpu_after |-> cpu, mem_after |-> mem, elapsed |-> elapsed, depth |-> 1]

\* a definition inside a class body or inside another definition
Nested(fn) == [fn EXCEPT !.depth = 2]

Script(child, parses, load, cpu, mem, elapsed, funcs) ==
    [child |-> child, parses |-> parses, load |-> load,
     cpu_after |-> cpu, mem_after |-> mem, elapsed |-> elapsed, funcs |-> funcs]

ScriptNames ==
    {"e2e.py", "syntax_error.py", "no_functions.py", "spin.py", "slow_main.py",
     "faulty.py", "quitter.py", "top_exit.py"}

ScriptDef(s) ==
    CASE s = "e2e.py" ->
           \* def needs_arg(x): return x*2 ; def noop(): return 1
           Script("ok", TRUE, "ok", 200, 4000, 30,
                  << Fn("needs_arg", TRUE, "needs_args", 0, 0, 1, 0, 0, 0),
                     Fn("noop", TRUE, "ok", 0, 0, 1, 0, 100, 20) >>)
      [] s = "syntax_error.py" ->
           Script("nonzero", FALSE, "raises", 100, 4000, 25, << >>)
      [] s = "no_functions.py" ->
           Script("ok", TRUE, "ok", 0, 3900, 40, << >>)
      [] s = "spin.py" ->
           \* def helper(): ... ; while True: pass
           Script("timeout", TRUE, "hang", 900, 4100, 1020,
                  << Fn("helper", TRUE, "ok", 1, 0, 2, 300, 200, 25) >>)
      [] s = "slow_main.py" ->
           \* def work(n): ... ; if __name__ == "__main__": work(10**9)
           Script("timeout", TRUE, "ok", 900, 4100, 1020,
                  << Fn("work", TRUE, "needs_args", 2, 1, 3, 0, 0, 0) >>)
      [] s = "faulty.py" ->
           \* class Worker: def process(self): ... ; a function raising
           \* TypeError in its body ; def boom() twice, raising ValueError
           Script("ok", TRUE, "ok", 300, 4000, 35,
                  << Nested(Fn("process", FALSE, "ok", 1, 0, 2, 0, 0, 0)),
                     Fn("bad_type", TRUE, "type_error", 0, 0, 1, 0, 0, 0),
                     Fn("boom", TRUE, "raises", 0, 0, 1, 0, 0, 0),
                     Fn("boom", TRUE, "raises", 1, 0, 2, 0, 0, 0) >>)
      [] s = "top_exit.py" ->
           \* def unused(): ... ; sys.exit(0)
           Script("ok", TRUE, "exit", 100, 4000, 21,
                  << Fn("unused", TRUE, "ok", 0, 0, 1, 0, 0, 20) >>)
      [] OTHER ->
           \* "quitter.py": def fine(): ... ; def stop(): sys.exit(1)
           Script("ok", TRUE, "ok", 100, 4000, 30,
                  << Fn("fine", TRUE, "ok", 1, 0, 1, 200, 0, 22),
                     Fn("stop", TRUE, "exit", 0, 0, 1, 0, 0, 0) >>)

\* the source order, unchanged
walk_source_order(fs) == fs

\* ast.walk visits the tree breadth first: the definitions that are
\* statements of the module in source order, then the ones inside a class
\* or inside another definition in source order
AtModuleLevel(f) == f.depth = 1

Deeper(f) == f.depth # 1

walk(fs) == SelectSeq(fs, AtModuleLevel) \o SelectSeq(fs, Deeper)

\* namespace[name] after exec: the last bound definition of that name
NamespaceFunc(s, name) ==
    LET fs == ScriptDef(s).funcs
        I == {i \in 1..Len(fs) : fs[i].name = name /\ fs[i].bound}
    IN  IF I = {} THEN [found |-> FALSE, fn |-> Fn(name, FALSE, "ok", 0, 0, 0, 0, 0, 0)]
        ELSE [found |-> TRUE, fn |-> fs[CHOOSE i \in I : \A j \in I : j <= i]]

----------------------------------------------------------------------------
(* Model artifacts.  A file holds nothing ("absent"), bytes joblib cannot   *)
(* load ("corrupt"), a pickled object that is no regressor ("other"), or a *)
(* regressor, here w[1]*cpu + w[2]*memory + w[3]*exec_time + b; a fitted    *)
(* linear model may carry a negative weight.                               *)

Locations == {"custom", "cwd", "install", "home"}

Obj(kind, w, b) == [kind |-> kind, w |-> w, b |-> b]
Absent == Obj("absent", <<0, 0, 0>>, 0)
Corrupt == Obj("corrupt", <<0, 0, 0>>, 0)
OtherObject == Obj("other", <<0, 0, 0>>, 0)
NoModel == Obj("none", <<0, 0, 0>>, 0)
Regressor(w, b) == Obj("regressor", w, b)

Contents == {Absent, Corrupt, OtherObject, Regressor(<<1, -1, 0>>, 7)}

Loads(c) == c.kind \notin {"absent", "corrupt"}

\* a variant that looks under the home directory before the default paths
possible_paths_home_first(path) == <<path, "home", "cwd", "install">>

\* the list built at predict_energy.py:31-36
possible_paths(path) == <<path, "cwd", "install", "home">>

\* the loop at predict_energy.py:38-46, from position i on
RECURSIVE LoadFrom(_, _, _, _)
LoadFrom(fs, paths, i, seen) ==
    IF i > Len(paths)
    THEN [model_loaded |-> FALSE, model |-> NoModel, model_path |-> paths[1], probed |-> seen]
    ELSE LET p == paths[i]
             seen2 == Append(seen, p)
         IN  IF fs[p].kind = "absent" THEN LoadFrom(fs, paths, i + 1, seen2)
             ELSE IF fs[p].kind = "corrupt" THEN LoadFrom(fs, paths, i + 1, seen2)
             ELSE [model_loaded |-> TRUE, model |-> fs[p], model_path |-> p, probed |-> seen2]

----------------------------------------------------------------------------
(* Energy Scorer *)

\* a variant with the weights of cpu and memory exchanged
FormulaSwapped(cpu, memory, exec_time) == cpu * 3 + memory * 5 + exec_time * 200

Formula(cpu, memory, exec_time) == cpu * 5 + memory * 3 + exec_time * 200

\* model.predict([[cpu, memory, exec_time]])[0]; an object without predict raises
ModelPredict(m, cpu, memory, exec_time) ==
    IF m.kind = "regressor"
    THEN [raised |-> FALSE, value |-> m.w[1] * cpu + m.w[2] * memory + m.w[3] * exec_time + m.b]
    ELSE [raised |-> TRUE, value |-> 0]

predict_energy(loaded, m, cpu, memory, exec_time) ==
    IF loaded THEN ModelPredict(m, cpu, memory, exec_time)
    ELSE [raised |-> FALSE, value |-> Formula(cpu, memory, exec_time)]

----------------------------------------------------------------------------
(* Static Estimator: estimate_function_ast *)

ASample(name, cpu, memory, exec_time, energy, estimated) ==
    [function |-> name, cpu_usage |-> cpu, memory_usage |-> memory,
     exec_time |-> exec_time, energy |-> energy, estimated |-> estimated]

NoASample == ASample("", 0, 0, 0, 0, FALSE)

AResult(returned, sample) == [returned |-> returned, sample |-> sample]

\* the first FunctionDef of that name in ast.walk order
FirstDef(s, name) ==
    LET fs == walk(ScriptDef(s).funcs)
        I == {i \in 1..Len(fs) : fs[i].name = name}
    IN  fs[CHOOSE i \in I : \A j \in I : i <= j]

\* a variant that weighs a recursive call like a loop
cpu_est_flat(fn) == fn.loops * 500 + fn.recursion * 500 + fn.lines * 50

\* counters are whole numbers; the estimates are in hundredths
cpu_est(fn) == fn.loops * 500 + fn.recursion * 1000 + fn.lines * 50
mem_est(fn) == fn.lines * 20
time_est(fn) == fn.loops * 1 + fn.recursion * 5

estimate_function_ast(loaded, m, s, name) ==
    IF \A i \in 1..Len(ScriptDef(s).funcs) : ScriptDef(s).funcs[i].name # name
    THEN AResult("none", NoASample)
    ELSE LET fn == FirstDef(s, name)
             e == predict_energy(loaded, m, cpu_est(fn), mem_est(fn), time_est(fn))
         IN  IF e.raised THEN AResult("none", NoASample)
             ELSE AResult("sample",
                          ASample(name, cpu_est(fn), mem_est(fn), time_est(fn), e.value, TRUE))

----------------------------------------------------------------------------
(* Function mode of the analyzer: analyze_function *)

\* the outcome of the call that decides what analyze_function returns
CallKind(s, name) ==
    LET d == ScriptDef(s)
        ns == NamespaceFunc(s, name)
    IN  CASE d.load = "raises" -> "load_raises"
          [] d.load = "exit" -> "load_exit"
          [] d.load = "hang" -> "load_hang"
          [] OTHER -> IF ~ns.found THEN "unbound" ELSE ns.fn.call

\* what the try block of analyze_function returns once func() was called
analyze_function(loaded, m, base, s, name) ==
    LET kind == CallKind(s, name)
        fn == NamespaceFunc(s, name).fn
        cpu_usage == Max(fn.cpu_after - base * 100, 0)
        memory_usage == Max(fn.mem_after - base * 100, 0)
        e == predict_energy(loaded, m, cpu_usage, memory_usage, fn.elapsed)
    IN  CASE kind \in {"load_raises", "load_exit", "unbound", "raises", "exit"} ->
               AResult("none", NoASample)
          [] kind \in {"needs_args", "type_error"} -> estimate_function_ast(loaded, m, s, name)
          [] OTHER ->
               IF e.raised THEN AResult("none", NoASample)
               ELSE AResult("sample",
                            ASample(name, cpu_usage, memory_usage, fn.elapsed, e.value, FALSE))

----------------------------------------------------------------------------
(* Script mode of the analyzer: measure_script_metrics and analyze_script *)

\* base is the cpu_percent reading before the child runs; rss and rss + grow are
\* the resident set size of the analyzer process before and after, in
\* hundredths of a megabyte
measure_script_metrics(s, base, rss, grow) ==
    LET d == ScriptDef(s)
        cpu_before == base * 100
        mem_before == rss
        mem_after == rss + grow
    IN  IF d.child = "timeout"
        THEN [error |-> TRUE, success |-> FALSE, cpu_usage |-> 0, memory_usage |-> 0,
              exec_time |-> 0]
        ELSE [error |-> FALSE, success |-> d.child = "ok",
              cpu_usage |-> Max(d.cpu_after, cpu_before),
              memory_usage |-> Max(mem_after - mem_before, 0),
              exec_time |-> d.elapsed]

\* extract_functions of the analyzer: any failure gives the empty list
analyzer_extract_functions(s) ==
    IF ScriptDef(s).parses THEN [i \in 1..Len(ScriptDef(s).funcs) |->
                                    walk(ScriptDef(s).funcs)[i].name]
    ELSE << >>

\* the loop at predict_energy.py:445-449: the results kept
Kept(r) == r.returned = "sample"

AnalyzeAll(loaded, m, base, s, names) ==
    LET rs == SelectSeq([i \in 1..Len(names) |-> analyze_function(loaded, m, base, s, names[i])],
                        Kept)
    IN  [i \in 1..Len(rs) |-> rs[i].sample]

NoAScript == [called |-> FALSE, script |-> "", base |-> 0, outcome |-> "none",
              metrics |-> NoASample, functions |-> << >>, results |-> << >>]

\* analyze_script(script_path, analyze_functions); exists: the path names a file
analyze_script(loaded, m, s, exists, analyze_functions, base, rss, grow) ==
    LET mt == measure_script_metrics(s, base, rss, grow)
        e == predict_energy(loaded, m, mt.cpu_usage, mt.memory_usage, mt.exec_time)
        names == analyzer_extract_functions(s)
        call == [NoAScript EXCEPT !.called = TRUE, !.script = s, !.base = base]
    IN  IF ~exists THEN [call EXCEPT !.outcome = "not_found"]
        ELSE IF mt.error THEN [call EXCEPT !.outcome = "error"]
        ELSE IF e.raised THEN [call EXCEPT !.outcome = "raised"]
        ELSE LET report == [call EXCEPT !.outcome = "report",
                                        !.metrics = ASample("", mt.cpu_usage, mt.memory_usage,
                                                            mt.exec_time, e.value, FALSE)]
             IN  IF ~analyze_functions THEN report
                 ELSE IF names # << >> /\ ScriptDef(s).load = "hang"
                 THEN [report EXCEPT !.outcome = "hung", !.functions = names]
                 ELSE [report EXCEPT !.functions = names,
                                     !.results = AnalyzeAll(loaded, m, base, s, names)]

----------------------------------------------------------------------------
(* Initial state: no process runs.  The files are whatever earlier use    *)
(* left behind.                                                            *)

NoScore == [called |-> FALSE, cpu |-> 0, memory |-> 0, exec_time |-> 0,
            raised |-> FALSE, value |-> 0]

NoACall == [script |-> "", function |-> "", kind |-> "none", returned |-> "none",
            raised |-> FALSE, sample |-> NoASample]

CSample(script, function, cpu, memory, exec_time, energy) ==
    [script |-> script, function |-> function, cpu_usage |-> cpu,
     memory_usage |-> memory, exec_time |-> exec_time, energy_cost |-> energy]

NoCSample == CSample("", "", 0, 0, 0, 0)

NoPCall == [script |-> "", function |-> "", kind |-> "none", returned |-> "none",
            raised |-> FALSE, sample |-> NoCSample]

NoSCall == [script |-> "", child |-> "none", returned |-> "none", sample |-> NoCSample]

File(exists, rows) == [exists |-> exists, rows |-> rows]
NoFile == File(FALSE, << >>)

NoTrained == [done |-> FALSE, model |-> NoModel, prior |-> NoModel]

AnalyzerNew ==
    /\ apc = "new"
    /\ model_loaded = FALSE
    /\ model = NoModel
    /\ model_path = ""
    /\ probed = << >>
    /\ explicit = ""
    /\ lastScore = NoScore
    /\ alast = NoACall
    /\ ascript = NoAScript

CollectorNew ==
    /\ cpc = "new"
    /\ scripts = << >>
    /\ idx = 0
    /\ functions = << >>
    /\ fidx = 0
    /\ script_results = << >>
    /\ function_results = << >>
    /\ baseline = 0
    /\ plast = NoPCall
    /\ slast = NoSCall
    /\ inproc = {}
    /\ profiler_on = FALSE

TrainerNew ==
    /\ tpc = "new"
    /\ model_type = ""
    /\ data = << >>
    /\ split = [done |-> FALSE, train |-> << >>, test |-> << >>]
    /\ tmodel = NoModel
    /\ tret = "none"
    /\ entered = << >>
    /\ saved = 0
    /\ artifactAtStart = NoModel

\* rows an earlier collection run may have left in data/function_metrics.csv
OldRow(k) == CSample("old.py", "f", k * 100, 0, 20, Formula(k * 100, 0, 20))

RECURSIVE OldRows(_)
OldRows(n) == IF n = 0 THEN << >> ELSE Append(OldRows(n - 1), OldRow(n))

\* the scripts a folder may hold, in directory order
Listing ==
    << "slow_main.py", "syntax_error.py", "no_functions.py", "e2e.py", "spin.py",
       "quitter.py", "faulty.py", "top_exit.py" >>

RECURSIVE Pick(_, _)
Pick(l, S) ==
    IF l = << >> THEN << >>
    ELSE IF Head(l) \in S THEN <<Head(l)>> \o Pick(Tail(l), S) ELSE Pick(Tail(l), S)

\* what os.listdir may return: up to MaxScripts of them
Folders == {Pick(Listing, S) : S \in {T \in SUBSET ScriptNames : Cardinality(T) <= MaxScripts}}

InitProc ==
    /\ prog = "idle"
    /\ runs = 0
    /\ exitCode = -1

Init ==
    /\ artifact \in {[l \in Locations |-> IF l = "cwd" THEN c ELSE Absent] :
                         c \in {Absent, Regressor(<<1, -1, 0>>, 7)}}
    /\ folder \in Folders
    /\ funcFile \in {NoFile, File(TRUE, OldRows(2))}
    /\ scriptFile = NoFile
    /\ trained = NoTrained
    /\ InitProc
    /\ AnalyzerNew /\ CollectorNew /\ TrainerNew

----------------------------------------------------------------------------
(* predict_energy.py as a process *)

\* main() constructs the analyzer: CompleteEnergyAnalyzer.__init__
Construct(path) ==
    /\ prog = "idle"
    /\ runs < MaxRuns
    /\ LET r == LoadFrom(artifact, possible_paths(path), 1, << >>)
       IN  /\ model_loaded' = r.model_loaded
           /\ model' = r.model
           /\ model_path' = r.model_path
           /\ probed' = r.probed
    /\ explicit' = path
    /\ apc' = "ready"
    /\ prog' = "analyze"
    /\ runs' = runs + 1
    /\ UNCHANGED <<exitCode, lastScore, alast, ascript, fsVars, cVars, tVars>>

\* triples a caller may score (hundredths)
Triples == {<<0, 0, 0>>, <<100, 0, 0>>, <<0, 100, 0>>, <<0, 0, 100>>, <<250, 130, 30>>}

\* a caller scores one triple
Score(cpu, memory, exec_time) ==
    /\ prog = "analyze"
    /\ apc = "ready"
    /\ LET e == predict_energy(model_loaded, model, cpu, memory, exec_time)
       IN  lastScore' = [called |-> TRUE, cpu |-> cpu, memory |-> memory,
                         exec_time |-> exec_time, raised |-> e.raised, value |-> e.value]
    /\ alast' = NoACall
    /\ ascript' = NoAScript
    /\ UNCHANGED <<apc, model_loaded, model, model_path, probed, explicit,
                   fsVars, procVars, cVars, tVars>>

\* analyze_function(script_path, func_name), func_name one that extract_functions
\* found; base is the load psutil reads before the call
AnalyzeFunction(s, i, base) ==
    /\ prog = "analyze"
    /\ apc = "ready"
    /\ i \in 1..Len(ScriptDef(s).funcs)
    /\ LET name == walk(ScriptDef(s).funcs)[i].name
           kind == CallKind(s, name)
           r == analyze_function(model_loaded, model, base, s, name)
       IN  IF kind = "load_hang"
           THEN /\ apc' = "hung"
                /\ alast' = [script |-> s, function |-> name, kind |-> kind,
                             returned |-> "never", raised |-> FALSE, sample |-> NoASample]
           ELSE /\ apc' = apc
                /\ alast' = [script |-> s, function |-> name, kind |-> kind,
                             returned |-> r.returned, raised |-> FALSE, sample |-> r.sample]
    /\ lastScore' = NoScore
    /\ ascript' = NoAScript
    /\ UNCHANGED <<model_loaded, model, model_path, probed, explicit,
                   fsVars, procVars, cVars, tVars>>

\* a script path that names no file
MissingScript == "missing.py"

\* the readings psutil may give around the child: the cpu_percent before it,
\* and the growth of the analyzer's resident set while it ran
Readings == {<<0, 50>>, <<1, -50>>}

\* main() with a script path: the analyzer just constructed runs
\* analyze_script(script_path, analyze_functions), after which main() returns.  An exception that leaves analyze_script ends
\* the process with a traceback.
AnalyzeScript(s, analyze_functions, base, grow) ==
    /\ prog = "analyze"
    /\ apc = "ready"
    /\ lastScore = NoScore /\ alast = NoACall
    /\ LET r == analyze_script(model_loaded, model, s, s # MissingScript,
                               analyze_functions, base, 6000, grow)
       IN  /\ ascript' = r
           /\ apc' = CASE r.outcome = "raised" -> "crashed"
                       [] r.outcome = "hung" -> "hung"
                       [] OTHER -> "returned"
    /\ lastScore' = NoScore
    /\ alast' = NoACall
    /\ UNCHANGED <<model_loaded, model, model_path, probed, explicit,
                   fsVars, procVars, cVars, tVars>>

\* the analyzer process ends: main() returned, or a traceback ended it
AnalyzerExit ==
    /\ prog = "analyze"
    /\ apc \in {"ready", "returned", "crashed"}
    /\ prog' = "idle"
    /\ exitCode' = IF apc = "crashed" THEN 1 ELSE 0
    /\ apc' = "new"
    /\ model_loaded' = FALSE
    /\ model' = NoModel
    /\ model_path' = ""
    /\ probed' = << >>
    /\ explicit' = ""
    /\ lastScore' = NoScore
    /\ alast' = NoACall
    /\ ascript' = NoAScript
    /\ UNCHANGED <<runs, fsVars, cVars, tVars>>

NextAnalyzer ==
    \/ \E path \in {"custom", "cwd"} : Construct(path)
    \/ \E x \in Triples : Score(x[1], x[2], x[3])
    \/ \E s \in Range(folder), base \in 0..MaxBaseline :
           \E i \in 1..Len(ScriptDef(s).funcs) : AnalyzeFunction(s, i, base)
    \/ \E s \in Range(folder) \cup {MissingScript}, fl \in BOOLEAN, x \in Readings :
           AnalyzeScript(s, fl, x[1], x[2])
    \/ AnalyzerExit

\* the scorer alone, over every placement of artifacts
InitScorer ==
    /\ artifact \in [Locations -> Contents]
    /\ folder = << "e2e.py" >>
    /\ funcFile = NoFile
    /\ scriptFile = NoFile
    /\ trained = NoTrained
    /\ InitProc
    /\ AnalyzerNew /\ CollectorNew /\ TrainerNew

SpecScorer == InitScorer /\ [][NextAnalyzer]_vars

----------------------------------------------------------------------------
(* collect_data.py as a process *)

FuncNames(fs) == [i \in 1..Len(fs) |-> fs[i].name]

\* a variant that lets the parse error out
extract_functions_uncaught(s) ==
    IF ScriptDef(s).parses
    THEN [raised |-> FALSE, names |-> FuncNames(walk(ScriptDef(s).funcs))]
    ELSE [raised |-> TRUE, names |-> << >>]

\* extract_functions(filepath): a parse error is caught and gives []
extract_functions(s) ==
    IF ScriptDef(s).parses
    THEN [raised |-> FALSE, names |-> FuncNames(walk(ScriptDef(s).funcs))]
    ELSE [raised |-> FALSE, names |-> << >>]

\* a variant that scores through the default artifact when it holds a regressor
collect_script_metrics_scored(s, base) ==
    LET d == ScriptDef(s)
        cpu_usage == Max(d.cpu_after, base * 100)
        memory_usage == Max(d.mem_after, 4000 + base * 100)
        energy == IF artifact["cwd"].kind = "regressor"
                  THEN ModelPredict(artifact["cwd"], cpu_usage, memory_usage, d.elapsed).value
                  ELSE cpu_usage * 5 + memory_usage * 3 + d.elapsed * 200
    IN  IF d.child = "timeout"
        THEN [returned |-> "none", sample |-> NoCSample]
        ELSE [returned |-> "sample",
              sample |-> CSample(s, "", cpu_usage, memory_usage, d.elapsed, energy)]

\* collect_script_metrics(script_path); base is the load psutil reads before the
\* child runs: cpu_percent base, virtual memory 40% + base.  Any exit status of the
\* child gives a sample; only the timeout gives None.
collect_script_metrics(s, base) ==
    LET d == ScriptDef(s)
        cpu_usage == Max(d.cpu_after, base * 100)
        memory_usage == Max(d.mem_after, 4000 + base * 100)
        energy == cpu_usage * 5 + memory_usage * 3 + d.elapsed * 200
    IN  IF d.child = "timeout"
        THEN [returned |-> "none", sample |-> NoCSample]
        ELSE [returned |-> "sample",
              sample |-> CSample(s, "", cpu_usage, memory_usage, d.elapsed, energy)]

\* profile_function(script_path, function_name): what the call returns, or
\* raised when an exception leaves it
profile_function(s, name, base) ==
    LET kind == CallKind(s, name)
        fn == NamespaceFunc(s, name).fn
        cpu_usage == Max(fn.cpu_after - base * 100, 0)
        memory_usage == Max(fn.mem_after - base * 100, 0)
        energy == cpu_usage * 5 + memory_usage * 3 + fn.elapsed * 200
    IN  CASE kind \in {"load_raises", "unbound"} ->
               [returned |-> "none", raised |-> FALSE, sample |-> NoCSample]
          [] kind \in {"needs_args", "type_error", "raises"} ->
               [returned |-> "none", raised |-> FALSE, sample |-> NoCSample]
          [] kind \in {"load_exit", "exit"} ->
               [returned |-> "never", raised |-> TRUE, sample |-> NoCSample]
          [] OTHER ->
               [returned |-> "sample", raised |-> FALSE,
                sample |-> CSample(s, name, cpu_usage, memory_usage, fn.elapsed, energy)]

\* the profiler of profile_function once the call is over.  disable() is
\* called on the path where func() returned; on the paths that return or
\* raise from inside the try block the Profile object is abandoned while
\* enabled, and it stays enabled until the runtime finalises it (released).
profiler_after(kind, on, released) ==
    CASE kind \in {"load_raises", "load_exit", "load_hang", "unbound"} -> on
      [] kind = "ok" -> FALSE
      [] OTHER -> ~released

\* main() and the head of collect_all_data: the folder is scanned; without
\* scripts the method returns at once
StartCollect(base) ==
    /\ prog = "idle"
    /\ runs < MaxRuns
    /\ prog' = "collect"
    /\ runs' = runs + 1
    /\ baseline' = base
    /\ scripts' = folder
    /\ IF folder = << >>
       THEN cpc' = "returned" /\ idx' = 0
       ELSE cpc' = "script" /\ idx' = 1
    /\ UNCHANGED <<exitCode, functions, fidx, script_results, function_results,
                   plast, slast, inproc, profiler_on, fsVars, aVars, tVars>>

\* loop body, lines 153-157
CollectScriptMetrics ==
    /\ prog = "collect"
    /\ cpc = "script"
    /\ LET s == scripts[idx]
           r == collect_script_metrics(s, baseline)
       IN  /\ slast' = [script |-> s, child |-> ScriptDef(s).child,
                        returned |-> r.returned, sample |-> r.sample]
           /\ script_results' = IF r.returned = "sample"
                                THEN Append(script_results, r.sample)
                                ELSE script_results
    /\ cpc' = "extract"
    /\ UNCHANGED <<scripts, idx, functions, fidx, function_results, baseline, plast, inproc,
                   profiler_on, fsVars, procVars, aVars, tVars>>

\* where the loop goes once the functions of scripts[idx] are dealt with
NextScript ==
    IF idx < Len(scripts)
    THEN cpc' = "script" /\ idx' = idx + 1
    ELSE cpc' = "save" /\ idx' = idx

\* loop body, lines 160-162
ExtractFunctions ==
    /\ prog = "collect"
    /\ cpc = "extract"
    /\ LET r == extract_functions(scripts[idx])
       IN  /\ functions' = r.names
           /\ IF r.raised THEN cpc' = "aborted" /\ UNCHANGED <<idx, fidx>>
              ELSE IF r.names # << >>
                   THEN cpc' = "profile" /\ fidx' = 1 /\ idx' = idx
                   ELSE NextScript /\ fidx' = 0
    /\ UNCHANGED <<scripts, script_results, function_results, baseline, plast, slast,
                   inproc, profiler_on, fsVars, procVars, aVars, tVars>>

\* loop body, lines 163-167: one function of the current script
ProfileFunction(released) ==
    /\ prog = "collect"
    /\ cpc = "profile"
    /\ profiler_on' = profiler_after(CallKind(scripts[idx], functions[fidx]),
                                     profiler_on, released)
    /\ LET s == scripts[idx]
           name == functions[fidx]
           kind == CallKind(s, name)
           r == profile_function(s, name, baseline)
       IN  /\ inproc' = inproc \cup {s}
           /\ IF kind = "load_hang"
              THEN /\ cpc' = "hung"
                   /\ plast' = [script |-> s, function |-> name, kind |-> kind,
                                returned |-> "never", raised |-> FALSE, sample |-> NoCSample]
                   /\ UNCHANGED <<function_results, idx, fidx>>
              ELSE /\ plast' = [script |-> s, function |-> name, kind |-> kind,
                                returned |-> r.returned, raised |-> r.raised,
                                sample |-> r.sample]
                   /\ function_results' = IF r.returned = "sample"
                                          THEN Append(function_results, r.sample)
                                          ELSE function_results
                   /\ IF r.raised
                      THEN cpc' = "aborted" /\ UNCHANGED <<idx, fidx>>
                      ELSE IF fidx < Len(functions)
                           THEN cpc' = "profile" /\ fidx' = fidx + 1 /\ idx' = idx
                           ELSE NextScript /\ fidx' = fidx
    /\ UNCHANGED <<scripts, functions, script_results, baseline, slast,
                   fsVars, procVars, aVars, tVars>>

\* save_results()
SaveResults ==
    /\ prog = "collect"
    /\ cpc = "save"
    /\ scriptFile' = IF script_results # << >> THEN File(TRUE, script_results) ELSE scriptFile
    /\ funcFile' = IF function_results # << >> THEN File(TRUE, function_results) ELSE funcFile
    /\ cpc' = "done"
    /\ UNCHANGED <<artifact, folder, trained, scripts, idx, functions, fidx, script_results,
                   function_results, baseline, plast, slast, inproc, profiler_on,
                   procVars, aVars, tVars>>

\* the collector process ends: main returned, or an exception left it
CollectorExit ==
    /\ prog = "collect"
    /\ cpc \in {"done", "returned", "aborted"}
    /\ prog' = "idle"
    /\ exitCode' = IF cpc = "aborted" THEN 1 ELSE 0
    /\ cpc' = "new"
    /\ scripts' = << >>
    /\ idx' = 0
    /\ functions' = << >>
    /\ fidx' = 0
    /\ script_results' = << >>
    /\ function_results' = << >>
    /\ baseline' = 0
    /\ plast' = NoPCall
    /\ slast' = NoSCall
    /\ inproc' = {}
    /\ profiler_on' = FALSE
    /\ UNCHANGED <<runs, fsVars, aVars, tVars>>

NextCollector ==
    \/ \E base \in 0..MaxBaseline : StartCollect(base)
    \/ CollectScriptMetrics
    \/ ExtractFunctions
    \/ \E released \in BOOLEAN : ProfileFunction(released)
    \/ SaveResults
    \/ CollectorExit

Next == NextAnalyzer \/ NextCollector

Spec == Init /\ [][Next]_vars

----------------------------------------------------------------------------
(* train_model.py as a process *)

ModelTypes == {"random_forest", "gradient_boosting", "linear"}

\* a variant whose chain ends in a default strategy
AnyModelType(mt) == TRUE

\* the if/elif chain of train_model: a model is built for these names only
KnownModelType(mt) == mt \in ModelTypes

\* a variant that goes on without the data file
load_data_always(file) == TRUE

\* load_data: True iff the data file exists
load_data(file) == file.exists

\* sklearn's train_test_split(test_size=0.2): n_test = ceil(0.2 n), the rest is
\* the train set, and an empty train set is a ValueError
n_test(n) == (n + 4) \div 5

train_test_split(rows) ==
    LET n == Len(rows)
        k == n - n_test(n)
    IN  IF k <= 0
        THEN [raised |-> TRUE, train |-> << >>, test |-> << >>]
        ELSE [raised |-> FALSE, train |-> SubSeq(rows, 1, k), test |-> SubSeq(rows, k + 1, n)]

\* self.model.fit(X_train, y_train): a regressor determined by the strategy and
\* the train set (here the mean of the targets)
Energies(rows) == [i \in 1..Len(rows) |-> rows[i].energy_cost]

Fit(mt, rows) == Regressor(<<0, 0, 0>>, SumSeq(Energies(rows)) \div Len(rows))

\* a variant that saves under the home directory
output_path_home == "home"

\* save_model(output_path="models/energy_model.pkl")
output_path == "cwd"

\* main() of train_model.py (via = "cli"), or a caller that builds
\* EnergyModelTrainer(model_type=mt) and runs the pipeline (via = "api")
StartTrain(via, mt) ==
    /\ prog = "idle"
    /\ runs < MaxRuns
    /\ prog' = "train"
    /\ runs' = runs + 1
    /\ model_type' = mt
    /\ artifactAtStart' = artifact["cwd"]
    /\ tpc' = IF via = "cli" /\ mt \notin ModelTypes THEN "usage" ELSE "load"
    /\ UNCHANGED <<exitCode, data, split, tmodel, tret, entered, saved, fsVars, aVars, cVars>>

\* step 1
LoadData ==
    /\ prog = "train"
    /\ tpc = "load"
    /\ entered' = Append(entered, "load")
    /\ IF load_data(funcFile)
       THEN data' = funcFile.rows /\ tpc' = "prepare" /\ tret' = tret
       ELSE data' = data /\ tpc' = "ended" /\ tret' = "False"
    /\ UNCHANGED <<model_type, split, tmodel, saved, artifactAtStart,
                   fsVars, procVars, aVars, cVars>>

\* step 2: prepare_features
PrepareFeatures ==
    /\ prog = "train"
    /\ tpc = "prepare"
    /\ entered' = Append(entered, "split")
    /\ LET r == train_test_split(data)
       IN  IF r.raised
           THEN split' = split /\ tpc' = "ended" /\ tret' = "raised"
           ELSE /\ split' = [done |-> TRUE, train |-> r.train, test |-> r.test]
                /\ tpc' = "train"
                /\ tret' = tret
    /\ UNCHANGED <<model_type, data, tmodel, saved, artifactAtStart,
                   fsVars, procVars, aVars, cVars>>

\* step 3: train_model
TrainModel ==
    /\ prog = "train"
    /\ tpc = "train"
    /\ IF KnownModelType(model_type)
       THEN /\ entered' = Append(Append(entered, "train"), "fit")
            /\ tmodel' = Fit(model_type, split.train)
            /\ tpc' = "evaluate"
            /\ tret' = tret
       ELSE /\ entered' = Append(entered, "train")
            /\ tmodel' = tmodel
            /\ tpc' = "ended"
            /\ tret' = "False"
    /\ UNCHANGED <<model_type, data, split, saved, artifactAtStart,
                   fsVars, procVars, aVars, cVars>>

\* step 4: evaluate_model
EvaluateModel ==
    /\ prog = "train"
    /\ tpc = "evaluate"
    /\ entered' = Append(entered, "evaluate")
    /\ tpc' = "save"
    /\ UNCHANGED <<model_type, data, split, tmodel, tret, saved, artifactAtStart,
                   fsVars, procVars, aVars, cVars>>

\* step 5: save_model, then run_full_pipeline returns True
SaveModel ==
    /\ prog = "train"
    /\ tpc = "save"
    /\ entered' = Append(entered, "save")
    /\ artifact' = [artifact EXCEPT ![output_path] = tmodel]
    /\ trained' = [done |-> TRUE, model |-> tmodel, prior |-> artifactAtStart]
    /\ saved' = saved + 1
    /\ tret' = "True"
    /\ tpc' = "ended"
    /\ UNCHANGED <<folder, funcFile, scriptFile, model_type, data, split, tmodel,
                   artifactAtStart, procVars, aVars, cVars>>

\* the trainer process ends: sys.exit(0 if success else 1), or a traceback
TrainerExit ==
    /\ prog = "train"
    /\ tpc \in {"ended", "usage"}
    /\ prog' = "idle"
    /\ exitCode' = IF tret = "True" THEN 0 ELSE 1
    /\ tpc' = "new"
    /\ model_type' = ""
    /\ data' = << >>
    /\ split' = [done |-> FALSE, train |-> << >>, test |-> << >>]
    /\ tmodel' = NoModel
    /\ tret' = "none"
    /\ entered' = << >>
    /\ saved' = 0
    /\ artifactAtStart' = NoModel
    /\ UNCHANGED <<runs, fsVars, aVars, cVars>>

NextTrainer ==
    \/ \E via \in {"cli", "api"}, mt \in ModelTypes \cup {"unknown_type"} : StartTrain(via, mt)
    \/ LoadData
    \/ PrepareFeatures
    \/ TrainModel
    \/ EvaluateModel
    \/ SaveModel
    \/ TrainerExit

InitTrain ==
    /\ artifact \in {[l \in Locations |-> IF l = "cwd" THEN c ELSE Absent] : c \in Contents}
    /\ folder = << "e2e.py" >>
    /\ funcFile \in {NoFile} \cup {File(TRUE, OldRows(n)) : n \in 0..MaxRows}
    /\ scriptFile = NoFile
    /\ trained = NoTrained
    /\ InitProc
    /\ AnalyzerNew /\ CollectorNew /\ TrainerNew

NextTrain == NextTrainer \/ NextAnalyzer

SpecTrain == InitTrain /\ [][NextTrain]_vars

----------------------------------------------------------------------------
(* Properties *)

\* rows of the samples collected so far and of the files written
Weighted(cpu, memory, exec_time) == cpu * 5 + memory * 3 + exec_time * 200

CRowOK(r) == r.energy_cost = Weighted(r.cpu_usage, r.memory_usage, r.exec_time)

\* C1: in formula mode (no model loaded) the scorer returns
\* cpu*0.5 + memory*0.3 + exec_time*100*0.2 for the triple it is given, for a
\* caller's triple and for the triple of a function sample alike, and every
\* script-level and function-level sample of bulk collection carries that value.
C1_FormulaMode ==
    /\ (lastScore.called /\ ~model_loaded) =>
           /\ ~lastScore.raised
           /\ lastScore.value = Weighted(lastScore.cpu, lastScore.memory, lastScore.exec_time)
    /\ (alast.returned = "sample" /\ ~model_loaded) =>
           alast.sample.energy = Weighted(alast.sample.cpu_usage, alast.sample.memory_usage,
                                          alast.sample.exec_time)
    /\ \A i \in 1..Len(script_results) : CRowOK(script_results[i])
    /\ \A i \in 1..Len(function_results) : CRowOK(function_results[i])

\* a formula-mode score of (2.5, 1.3, 0.3) = 7.64, after a collection run wrote
\* a script-level and a function-level sample
C1_Witness ==
    /\ lastScore.called /\ ~model_loaded
    /\ lastScore.cpu = 250 /\ lastScore.memory = 130 /\ lastScore.exec_time = 30
    /\ lastScore.value = 7640
    /\ scriptFile.exists
    /\ funcFile.exists /\ \E i \in 1..Len(funcFile.rows) : funcFile.rows[i].script = "e2e.py"

\* C2: predict_energy never raises, whatever was loaded from a model artifact.
C2_NeverRaises == lastScore.called => ~lastScore.raised

\* C3 (as amended): the constructor examines the explicit path, the default
\* path relative to the working directory, the default path relative to the
\* installation and the path under the home directory, in that order; the first
\* one whose load succeeds is the model, nothing after it is examined, a corrupt
\* file is passed over, and when none loads the scorer is in formula mode.
FourPaths == <<explicit, "cwd", "install", "home">>

Loadable == {i \in 1..4 : Loads(artifact[FourPaths[i]])}

C3_LoadOrder ==
    apc = "ready" =>
        IF Loadable = {}
        THEN ~model_loaded /\ model = NoModel /\ probed = FourPaths
        ELSE LET k == CHOOSE i \in Loadable : \A j \in Loadable : i <= j
             IN  /\ model_loaded
                 /\ model_path = FourPaths[k]
                 /\ model = artifact[FourPaths[k]]
                 /\ probed = SubSeq(FourPaths, 1, k)

\* a corrupt explicit file is passed over, the installation's model wins and
\* the loadable file under the home directory is never examined
C3_Witness ==
    /\ apc = "ready" /\ explicit = "custom"
    /\ artifact["custom"] = Corrupt /\ artifact["cwd"] = Absent
    /\ artifact["install"].kind = "regressor" /\ artifact["home"] = OtherObject
    /\ model_loaded /\ model_path = "install" /\ probed = <<"custom", "cwd", "install">>

\* C3 as stated: three locations, the explicit path, one default relative path
\* and the home path, are examined in that order.
C3_ThreeLocations ==
    apc = "ready" =>
        \E d \in {"cwd", "install"} :
            \E k \in 0..3 : probed = SubSeq(<<explicit, d, "home">>, 1, k)

\* C4: a function that cannot be called without arguments gets an estimated
\* sample from the Static Estimator, from analyze_function and from
\* profile_function, whose record is appended to the function-level results.
C4_NeedsArgsEstimated ==
    /\ alast.kind = "needs_args" =>
           alast.returned = "sample" /\ alast.sample.estimated
    /\ plast.kind = "needs_args" =>
           /\ plast.returned = "sample"
           /\ \E i \in 1..Len(function_results) : function_results[i] = plast.sample

\* C5: an invocation that fails for another reason, whatever the error, gives
\* no sample and the failure stays inside analyze_function / profile_function.
OtherFailures == {"type_error", "raises", "exit"}

C5_FailuresSwallowed ==
    /\ alast.kind \in OtherFailures => alast.returned = "none" /\ ~alast.raised
    /\ plast.kind \in OtherFailures => plast.returned = "none" /\ ~plast.raised

\* C6: whatever the outcome of each script and function measurement, a batch
\* over a non-empty list only stops after every script was attempted and
\* save_results was reached.
C6_BatchCompletes ==
    (prog = "collect" /\ scripts # << >> /\ cpc \in {"aborted", "returned", "done"}) =>
        cpc = "done" /\ idx = Len(scripts)

\* C7: a script that does not parse or defines no function yields no
\* function-level sample and no error: its definitions are never loaded, its
\* loop iteration leaves function_results and the script-level samples of the
\* other scripts as they were, and the batch goes on to the next script.
NoFunctions(s) == ~ScriptDef(s).parses \/ ScriptDef(s).funcs = << >>

AtNoFunctions ==
    prog = "collect" /\ cpc \in {"script", "extract"} /\ NoFunctions(scripts[idx])

C7_NoFunctionsInv ==
    /\ \A i \in 1..Len(function_results) : ~NoFunctions(function_results[i].script)
    /\ \A s \in inproc : ~NoFunctions(s)
    /\ plast.kind # "none" => ~NoFunctions(plast.script)
    /\ (prog = "collect" /\ cpc \in {"profile", "aborted", "hung"}) => ~NoFunctions(scripts[idx])

C7_NoFunctionsStep ==
    AtNoFunctions =>
        /\ function_results' = function_results
        /\ inproc' = inproc
        /\ \/ script_results' = script_results
           \/ /\ Len(script_results') = Len(script_results) + 1
              /\ SubSeq(script_results', 1, Len(script_results)) = script_results
              /\ script_results'[Len(script_results')].script = scripts[idx]
        /\ cpc = "script" => cpc' = "extract" /\ idx' = idx
        /\ cpc = "extract" =>
               IF idx < Len(scripts) THEN cpc' = "script" /\ idx' = idx + 1 ELSE cpc' = "save"

C7_NoFunctionScripts == [] C7_NoFunctionsInv /\ [][C7_NoFunctionsStep]_vars

\* a batch of a script that does not parse and a later script is saved with
\* both script-level samples and the later script's function sample
C7_Witness ==
    /\ prog = "collect" /\ cpc = "done"
    /\ scripts = <<"syntax_error.py", "e2e.py">>
    /\ Len(script_results) = 2
    /\ Len(function_results) = 1 /\ function_results[1].function = "noop"

\* C8: after a script-mode timeout there is no script-level sample for the
\* script, and the batch neither dies nor stalls on it.
C8_TimeoutNotFatal ==
    (prog = "collect" /\ idx >= 1 /\ cpc # "script" /\ ScriptDef(scripts[idx]).child = "timeout") =>
        /\ \A i \in 1..Len(script_results) : script_results[i].script # scripts[idx]
        /\ cpc \notin {"aborted", "hung"}

\* C9: a training run whose data file is missing, whose dataset is empty or
\* whose strategy is unknown never executes save_model: the artifact is as it
\* was when the run began.
FatalInput ==
    \/ ~funcFile.exists
    \/ funcFile.rows = << >>
    \/ model_type \notin {"random_forest", "gradient_boosting", "linear"}

C9_FailsClosed ==
    (prog = "train" /\ FatalInput) =>
        /\ saved = 0
        /\ "save" \notin Range(entered)
        /\ artifact["cwd"] = artifactAtStart
        /\ tret # "True"

\* a run with an unknown strategy over good data has ended and a prior
\* artifact is still in place
C9_Witness ==
    /\ prog = "train" /\ tpc = "ended"
    /\ model_type = "unknown_type"
    /\ funcFile.exists /\ Len(funcFile.rows) >= 2
    /\ "train" \in Range(entered)
    /\ artifactAtStart.kind = "regressor" /\ artifact["cwd"] = artifactAtStart

\* C10: on a data file without rows the pipeline fails before the split and fit
\* steps are entered, and run_full_pipeline returns False.
C10_EmptyFailsEarly ==
    (prog = "train" /\ tpc = "ended" /\ funcFile.exists /\ funcFile.rows = << >>) =>
        /\ "split" \notin Range(entered)
        /\ "fit" \notin Range(entered)
        /\ tret = "False"

\* C11: a training run with an unknown strategy name, whether the name came
\* from the command line or from the constructor, enters no step (no data
\* load, no split, no fit), writes no artifact and does not succeed.
C11_UnknownTypePreWork ==
    (prog = "train" /\ model_type \notin ModelTypes) =>
        /\ entered = << >>
        /\ saved = 0
        /\ artifact = [artifact EXCEPT !["cwd"] = artifactAtStart]
        /\ tret \notin {"True", "raised"}

\* C12: a process ends with status 0 after success and with status 1 after
\* each fatal user-facing error: unknown model type, missing training data
\* file, target script not found.
C12_ExitStep ==
    /\ (prog = "train" /\ prog' = "idle") =>
           /\ model_type \notin ModelTypes => exitCode' = 1
           /\ ~funcFile.exists => exitCode' = 1
           /\ tret = "True" => exitCode' = 0
    /\ (prog = "analyze" /\ prog' = "idle" /\ ascript.called) =>
           /\ ascript.outcome = "not_found" => exitCode' = 1
           /\ ascript.outcome = "report" => exitCode' = 0

C12_ExitCodes == [][C12_ExitStep]_vars

\* C13: every row of the script-level and of the function-level sample file
\* is still a row of that file after any step.
RowsKept(f, g) == \A i \in 1..Len(f.rows) : g.exists /\ f.rows[i] \in Range(g.rows)

C13_AppendOnly == [][RowsKept(funcFile, funcFile') /\ RowsKept(scriptFile, scriptFile')]_vars

\* C14: once a training run has succeeded, the default artifact is the model
\* that run fitted, and an analyzer constructed with the default path has
\* loaded it from there and scores every triple as that model does.
C14_TrainedModelServed ==
    trained.done =>
        /\ artifact["cwd"] = trained.model
        /\ trained.model.kind = "regressor"
        /\ (prog = "analyze" /\ explicit = "cwd") =>
               /\ model_loaded
               /\ model = trained.model
               /\ model_path = "cwd"
               /\ lastScore.called =>
                      /\ ~lastScore.raised
                      /\ lastScore.value = trained.model.w[1] * lastScore.cpu
                                           + trained.model.w[2] * lastScore.memory
                                           + trained.model.w[3] * lastScore.exec_time
                                           + trained.model.b

C14_Witness ==
    /\ trained.done
    /\ trained.prior.kind = "regressor"
    /\ trained.prior # trained.model
    /\ prog = "analyze"
    /\ explicit = "cwd"
    /\ lastScore.called
    /\ lastScore.memory = 130

\* C15: the steps of the pipeline are entered in the order load, split, fit,
\* evaluate, persist, each only after the one before it completed.
StepOrder == <<"load", "split", "train", "fit", "evaluate", "save">>

C15_FixedOrder ==
    prog = "train" =>
        /\ Len(entered) <= Len(StepOrder)
        /\ entered = SubSeq(StepOrder, 1, Len(entered))
        /\ "split" \in Range(entered) => funcFile.exists /\ data = funcFile.rows
        /\ "train" \in Range(entered) => split.done
        /\ "evaluate" \in Range(entered) => tmodel.kind = "regressor"
        /\ "save" \in Range(entered) => tpc = "ended" /\ tret = "True"

C15_Witness ==
    /\ prog = "train"
    /\ entered = StepOrder
    /\ saved = 1

\* C16: in script mode, in bulk collection and in single-script analysis,
\* the reported cpu_usage is the larger of the two CPU readings and the
\* reported memory_usage is the larger of the two virtual-memory percentages
\* (40% + base before the child runs, the script's reading after it).
Larger(a, b) == IF a > b THEN a ELSE b

ScriptModeMax(sample, s, base) ==
    /\ sample.cpu_usage = Larger(ScriptDef(s).cpu_after, base * 100)
    /\ sample.memory_usage = Larger(ScriptDef(s).mem_after, 4000 + base * 100)

C16_ScriptModeMax ==
    /\ slast.returned = "sample" => ScriptModeMax(slast.sample, slast.script, baseline)
    /\ ascript.outcome = "report" => ScriptModeMax(ascript.metrics, ascript.script, ascript.base)

\* C17: an estimated sample of a function with counters (loops, recursion,
\* lines) has cpu = loops*5 + recursion*10 + lines*0.5, memory = lines*0.2,
\* time = (loops*0.1 + recursion*0.5)/10, whatever the load and the model
\* are; counters (0, 0, 1) give 0.5, 0.2, 0.0.
EstimateOK(sample, s) ==
    sample.estimated =>
        LET fn == FirstDef(s, sample.function)
        IN  /\ sample.cpu_usage = fn.loops * 500 + fn.recursion * 1000 + fn.lines * 50
            /\ sample.memory_usage = fn.lines * 20
            /\ sample.exec_time * 10 = fn.loops * 10 + fn.recursion * 50
            /\ (fn.loops = 0 /\ fn.recursion = 0 /\ fn.lines = 1) =>
                   /\ sample.cpu_usage = 50
                   /\ sample.memory_usage = 20
                   /\ sample.exec_time = 0

C17_StaticEstimate ==
    /\ alast.returned = "sample" => EstimateOK(alast.sample, alast.script)
    /\ \A i \in 1..Len(ascript.results) : EstimateOK(ascript.results[i], ascript.script)

C17_Witness ==
    /\ alast.returned = "sample"
    /\ alast.sample.estimated
    /\ alast.script = "slow_main.py"
    /\ alast.sample.cpu_usage = 2150
    /\ alast.sample.exec_time = 7

\* C18: every sample produced by script mode, measured function mode or
\* the static estimate, in formula mode or in model mode, has cpu_usage,
\* memory_usage, exec_time and energy all >= 0.
NonNegA(x) == x.cpu_usage >= 0 /\ x.memory_usage >= 0 /\ x.exec_time >= 0 /\ x.energy >= 0

NonNegC(x) == x.cpu_usage >= 0 /\ x.memory_usage >= 0 /\ x.exec_time >= 0 /\ x.energy_cost >= 0

C18_NonNegative ==
    /\ NonNegA(alast.sample)
    /\ NonNegA(ascript.metrics)
    /\ \A i \in 1..Len(ascript.results) : NonNegA(ascript.results[i])
    /\ NonNegC(plast.sample)
    /\ NonNegC(slast.sample)
    /\ \A i \in 1..Len(script_results) : NonNegC(script_results[i])
    /\ \A i \in 1..Len(function_results) : NonNegC(function_results[i])

\* C19 as stated: extract_functions returns the names in the order in which
\* the definitions appear in the source text, nested ones and methods
\* included.
SourceNames(s) == [i \in 1..Len(ScriptDef(s).funcs) |-> ScriptDef(s).funcs[i].name]

C19_DeclarationOrder ==
    /\ (prog = "collect" /\ cpc = "profile") => functions = SourceNames(scripts[idx])
    /\ (ascript.outcome = "report" /\ ascript.functions # << >>) =>
           ascript.functions = SourceNames(ascript.script)

\* C19: extract_functions returns one entry per definition, two definitions
\* of one name included, a definition nearer the top of the syntax tree
\* before a deeper one and definitions of one depth in source order.
BreadthFirst(names, s) ==
    LET fs == ScriptDef(s).funcs
        n == Len(fs)
    IN  /\ Len(names) = n
        /\ \E f \in [1..n -> 1..n] :
               /\ \A i, j \in 1..n : i # j => f[i] # f[j]
               /\ \A i \in 1..n : names[i] = fs[f[i]].name
               /\ \A i, j \in 1..n : i < j =>
                      \/ fs[f[i]].depth < fs[f[j]].depth
                      \/ fs[f[i]].depth = fs[f[j]].depth /\ f[i] < f[j]

C19_WalkOrder ==
    /\ (prog = "collect" /\ cpc = "profile") => BreadthFirst(functions, scripts[idx])
    /\ (ascript.outcome = "report" /\ ascript.functions # << >>) =>
           BreadthFirst(ascript.functions, ascript.script)

C19_Witness ==
    /\ prog = "collect"
    /\ cpc = "profile"
    /\ scripts[idx] = "faulty.py"
    /\ functions = << "bad_type", "boom", "boom", "process" >>

\* C20: once profile_function has returned, with a sample or without one,
\* no profiler is enabled.
C20_ProfilerDisabled ==
    (prog = "collect" /\ plast.returned \in {"sample", "none"}) => ~profiler_on

\* C21: once save_results has run, the function-level file holds exactly the
\* function_results of this run and the script-level file exactly its
\* script_results, also when the run produced none of that kind.
C21_FilesAreThisRun ==
    (prog = "collect" /\ cpc = "done") =>
        /\ funcFile.rows = function_results
        /\ scriptFile.rows = script_results

\* C22: a script whose child run hit the timeout is not executed in the
\* collector process during the same batch.
C22_TimedOutNotRerun ==
    prog = "collect" => \A s \in inproc : ScriptDef(s).child # "timeout"

\* C23: every row of the two sample files, and every sample the collector
\* holds, has energy_cost = cpu_usage*0.5 + memory_usage*0.3 +
\* exec_time*100*0.2, whether or not a model artifact exists.
RowWeighted(r) == r.energy_cost = 5 * r.cpu_usage + 3 * r.memory_usage + 200 * r.exec_time

C23_RowsByFormula ==
    /\ \A i \in 1..Len(scriptFile.rows) : RowWeighted(scriptFile.rows[i])
    /\ \A i \in 1..Len(funcFile.rows) : RowWeighted(funcFile.rows[i])
    /\ slast.returned = "sample" => RowWeighted(slast.sample)
    /\ plast.returned = "sample" => RowWeighted(plast.sample)

C23_Witness ==
    /\ artifact["cwd"].kind = "regressor"
    /\ prog = "collect"
    /\ cpc = "done"
    /\ script_results # << >> /\ scriptFile.rows = script_results
    /\ function_results # << >> /\ funcFile.rows = function_results

====
